---- MODULE Spec2Model ----
(***************************************************************************)
(* FinStrive ledger import: the parser (backend/app/parser.py) and the     *)
(* importer (backend/app/importer.py) as a state machine.                  *)
(*                                                                         *)
(* Representation.  A Python str is a sequence of chunks (TLA+ strings);   *)
(* concatenation is \o.  The chunks used form a prefix-free code, so two   *)
(* strs are equal iff their chunk sequences are, and str ordering is the   *)
(* lexicographic order of the chunks (ChunkOrder lists them by code        *)
(* point).  A Decimal is an integer number of hundredths.  Optional[X] is  *)
(* a sequence of length at most one: None is <<>>, a value v is <<v>>.     *)
(* A table of the database is the sequence of its rows; a row's id is its  *)
(* index.                                                                  *)
(***************************************************************************)
EXTENDS Integers, Sequences, FiniteSets, TLC

VARIABLES
    file,            \* lines of the ledger file at file_path
    file_exists,     \* file_path.exists()
    session_active,  \* the Session's transaction accepts work (no flush has failed in it)
    parser_aliases,  \* self.aliases of the LedgerParser of the latest run
    response,        \* Optional: HTTP status the POST /import handler answered with
    pc,              \* position of import_ledger_file: idle, loop, committed, done,
                     \* aborted (FileNotFoundError), failed (exception out of the run)
    run,             \* number of import runs started
    parsed,          \* parsed_transactions of the current run (postings are mutable)
    idx,             \* number of parsed transactions the loop has consumed
    imported_count,
    skipped_count,
    accounts,        \* session view of table accounts
    transactions,    \* session view of table transactions
    postings,        \* session view of table postings
    balances,        \* session view of table account_balances
    committed,       \* the four tables as of the last db.commit()
    log,             \* history: one record per call made (what it returned, logged and added)
    report,          \* Optional: the dict import_ledger_file returned
    arg,             \* input of the function under test (function-level specifications)
    ret              \* Optional: its result

vars == <<file, file_exists, parser_aliases, session_active, response, pc, run, parsed, idx, imported_count, skipped_count, accounts,
          transactions, postings, balances, committed, log, report, arg, ret>>

None == <<>>

Some(v) == <<v>>

-----------------------------------------------------------------------------
(* Bounds of the model *)

MaxFileLines == 5

MaxRuns == 2

MaxCalls == 3

MaxAliasLines == 4

MaxHashPostings == 3

-----------------------------------------------------------------------------
(* str helpers *)

COLON == ":"

\* chunks in ascending code-point order of the text they stand for
ChunkOrder ==
    << ":", "A", "Assets", "B", "Banking", "Checking", "Equity", "Expenses",
       "Food", "Income", "Liabilities", "Salary", "TDS", "Tax" >>

RECURSIVE ChunkRankFrom(_, _)
ChunkRankFrom(c, i) ==
    IF i > Len(ChunkOrder) THEN i
    ELSE IF ChunkOrder[i] = c THEN i
    ELSE ChunkRankFrom(c, i + 1)

ChunkRank(c) == ChunkRankFrom(c, 1)

\* Python's  a < b  on str
RECURSIVE StrLess(_, _)
StrLess(a, b) ==
    IF Len(b) = 0 THEN FALSE
    ELSE IF Len(a) = 0 THEN TRUE
    ELSE IF a[1] = b[1] THEN StrLess(Tail(a), Tail(b))
    ELSE ChunkRank(a[1]) < ChunkRank(b[1])

\* str.startswith(prefix)
StartsWith(s, prefix) ==
    /\ Len(prefix) <= Len(s)
    /\ SubSeq(s, 1, Len(prefix)) = prefix

\* str.split(':')
RECURSIVE SplitFrom(_, _, _)
SplitFrom(s, i, cur) ==
    IF i > Len(s) THEN << cur >>
    ELSE IF s[i] = COLON THEN << cur >> \o SplitFrom(s, i + 1, << >>)
    ELSE SplitFrom(s, i + 1, Append(cur, s[i]))

Split(s) == SplitFrom(s, 1, << >>)

\* ':'.join(parts)
RECURSIVE Join(_)
Join(parts) ==
    IF Len(parts) = 0 THEN << >>
    ELSE IF Len(parts) = 1 THEN parts[1]
    ELSE parts[1] \o << COLON >> \o Join(Tail(parts))

Abs(x) == IF x < 0 THEN -x ELSE x

RECURSIVE SumSeq(_)
SumSeq(s) == IF Len(s) = 0 THEN 0 ELSE s[1] + SumSeq(Tail(s))

\* str.strip(): leading and trailing blanks removed
RECURSIVE LStrip(_)
LStrip(s) ==
    IF Len(s) > 0 /\ s[1] = " " THEN LStrip(Tail(s)) ELSE s

RECURSIVE RStripStr(_)
RStripStr(s) ==
    IF Len(s) > 0 /\ s[Len(s)] = " " THEN RStripStr(SubSeq(s, 1, Len(s) - 1)) ELSE s

Strip(s) == RStripStr(LStrip(s))

Pad2(n) == IF n < 10 THEN "0" \o ToString(n) ELSE ToString(n)

\* str(Decimal) of a Decimal with two fractional digits
DecimalStr(c) ==
    (IF c < 0 THEN << "-" >> ELSE << >>)
        \o << ToString(Abs(c) \div 100), ".", Pad2(Abs(c) % 100) >>

-----------------------------------------------------------------------------
(* Lines of a ledger file.  A line is a record of its lexical structure:   *)
(*   blank    only whitespace                                              *)
(*   alias    [alias ]KEY=VALUE            (kw: the word alias is present)  *)
(*   header   YYYY/MM/DD  payee                                            *)
(*   posting  <indent><account>[ <amount text>]                            *)
(*   comment  ; ...                                                        *)
(* nl: the line still ends with its newline (readlines keeps it).          *)
(* An amount text is [pre, num]: the characters before the first digit     *)
(* run (a minus sign, the rupee glyph, letters) and Optional the value of  *)
(* the first run of digits and commas with its two-digit fraction.         *)

BlankLine == [k |-> "blank", nl |-> TRUE]

CommentLine == [k |-> "comment", nl |-> TRUE]

AliasLine(kw, key, value) ==
    [k |-> "alias", kw |-> kw, key |-> key, value |-> value, nl |-> TRUE]

HeaderLine(date, payee) ==
    [k |-> "header", date |-> date, payee |-> payee, nl |-> TRUE]

PostingLine(indent, account, text) ==
    [k |-> "posting", indent |-> indent, account |-> account, text |-> text, nl |-> TRUE]

FourSpaces == << " ", " ", " ", " " >>

AmountText(pre, num) == [pre |-> pre, num |-> num]

\* line.rstrip()
RStrip(line) == [line EXCEPT !.nl = FALSE]

\* not line.strip()
IsBlank(line) == line.k = "blank"

ALIAS_PATTERN(line) == line.k = "alias"

DATE_PATTERN(line) == line.k = "header"

COMMENT_PATTERN(line) == line.k = "comment"

\* ^\s{4}(\S+)\s+(.+?)$ : four whitespace characters, the account, an amount text
POSTING_PATTERN(line) ==
    /\ line.k = "posting"
    /\ Len(line.indent) = 4
    /\ line.text # None

\* ^\s{4}(\S+)\s*$
POSTING_ACCOUNT_ONLY_PATTERN(line) ==
    /\ line.k = "posting"
    /\ Len(line.indent) = 4
    /\ line.text = None

DefaultCurrency == << "INR" >>

-----------------------------------------------------------------------------
(* LedgerParser *)

EmptyDict == [x \in {} |-> << >>]

\* LedgerParser.expand_aliases
RECURSIVE ExpandParts(_, _)
ExpandParts(aliases, parts) ==
    IF Len(parts) = 0 THEN << >>
    ELSE (IF parts[1] \in DOMAIN aliases
            THEN Split(aliases[parts[1]])
            ELSE << parts[1] >>)
         \o ExpandParts(aliases, Tail(parts))

\* variant: the substituted segments are expanded again
expand_aliases_again(aliases, account) ==
    Join(ExpandParts(aliases, ExpandParts(aliases, Split(account))))

expand_aliases(aliases, account) == Join(ExpandParts(aliases, Split(account)))

\* Decimal(amount_value) raises decimal.InvalidOperation, which the clause
\* except (ValueError, TypeError) of parse_amount does not catch.  A chunk ","
\* of text.pre stands for a comma that no digit follows: [\d,]+ matches it,
\* replace(',', '') leaves the empty str and Decimal('') raises.
DecimalRaises(text) == \E j \in DOMAIN text.pre : text.pre[j] = ","

\* LedgerParser.parse_amount: <<amount, currency>>.  AMOUNT_PATTERN.search finds
\* the first run of digits; what precedes it (a minus sign included) is not read.
\* This is what the call returns; it does not return when DecimalRaises(text).
parse_amount(text) ==
    IF text.num # None
        THEN << Some(text.num[1]), DefaultCurrency >>
        ELSE << None, DefaultCurrency >>

\* LedgerParser.parse_aliases: [aliases, remaining]
RECURSIVE ParseAliasesFrom(_, _, _, _, _)
ParseAliasesFrom(lines, i, aliases, in_aliases, remaining) ==
    IF i > Len(lines) THEN [aliases |-> aliases, remaining |-> remaining]
    ELSE LET line == RStrip(lines[i]) IN
         IF in_aliases /\ IsBlank(line)
            THEN ParseAliasesFrom(lines, i + 1, aliases, in_aliases, remaining)
         ELSE IF ALIAS_PATTERN(line)
            THEN ParseAliasesFrom(lines, i + 1,
                    (line.key :> Strip(line.value)) @@ aliases, TRUE, remaining)
         ELSE ParseAliasesFrom(lines, i + 1, aliases, FALSE, Append(remaining, line))

\* parse_aliases(lines) on the instance whose self.aliases is self_aliases
parse_aliases_into(self_aliases, lines) == ParseAliasesFrom(lines, 1, self_aliases, TRUE, << >>)

parse_aliases(lines) == ParseAliasesFrom(lines, 1, EmptyDict, TRUE, << >>)

\* variant: one LedgerParser serves every run and keeps its aliases
SharedParserAliases(previous) == previous

\* LedgerParser(): __init__ sets self.aliases = {}, whatever the instance of
\* the run before (previous) held
NewParserAliases(previous) == EmptyDict

IsLeap(y) == (y % 4 = 0 /\ y % 100 # 0) \/ y % 400 = 0

DaysInMonth(y, m) ==
    IF m \in {4, 6, 9, 11} THEN 30
    ELSE IF m = 2 THEN (IF IsLeap(y) THEN 29 ELSE 28)
    ELSE 31

\* datetime.strptime(date_str, "%Y/%m/%d") does not raise ValueError
StrptimeOk(d) ==
    /\ d[1] >= 1
    /\ d[2] \in 1..12
    /\ d[3] \in 1..DaysInMonth(d[1], d[2])

\* datetime.isoformat()
isoformat(d) == << ToString(d[1]), "-", Pad2(d[2]), "-", Pad2(d[3]), "T00:00:00" >>

\* the postings loop of parse_transaction
RECURSIVE ParsePostings(_, _)
ParsePostings(aliases, posting_lines) ==
    IF Len(posting_lines) = 0 THEN << >>
    ELSE LET posting_line == RStrip(posting_lines[1])
             rest == ParsePostings(aliases, Tail(posting_lines))
         IN  IF IsBlank(posting_line) \/ COMMENT_PATTERN(posting_line) THEN rest
             ELSE IF POSTING_PATTERN(posting_line)
                THEN LET r == parse_amount(posting_line.text[1])
                     IN  << [account |-> expand_aliases(aliases, Strip(posting_line.account)),
                             amount |-> r[1], currency |-> r[2]] >> \o rest
             ELSE IF POSTING_ACCOUNT_ONLY_PATTERN(posting_line)
                THEN << [account |-> expand_aliases(aliases, Strip(posting_line.account)),
                         amount |-> None, currency |-> DefaultCurrency] >> \o rest
             ELSE rest

\* variant: the date of the header is not checked against the calendar
parse_transaction_any_date(aliases, date_line, posting_lines) ==
    LET ps == ParsePostings(aliases, posting_lines)
    IN  IF ~DATE_PATTERN(date_line) \/ Len(ps) = 0 THEN None
        ELSE Some([date |-> date_line.date, payee |-> Strip(date_line.payee),
                   postings |-> ps])

\* LedgerParser.parse_transaction: Optional[Transaction]
parse_transaction(aliases, date_line, posting_lines) ==
    IF ~DATE_PATTERN(date_line) THEN None
    ELSE IF ~StrptimeOk(date_line.date) THEN None
    ELSE LET ps == ParsePostings(aliases, posting_lines)
         IN  IF Len(ps) = 0 THEN None
             ELSE Some([date |-> date_line.date, payee |-> Strip(date_line.payee),
                        postings |-> ps])

\* the grouping loop of parse_file; current_date_line is Optional
RECURSIVE GroupFrom(_, _, _, _, _)
GroupFrom(aliases, lines, i, current_date_line, current_postings) ==
    IF i > Len(lines)
        THEN IF current_date_line # None
                THEN parse_transaction(aliases, current_date_line[1], current_postings)
                ELSE << >>
    ELSE LET line == RStrip(lines[i]) IN
         IF IsBlank(line) \/ COMMENT_PATTERN(line)
            THEN GroupFrom(aliases, lines, i + 1, current_date_line, current_postings)
         ELSE IF DATE_PATTERN(line)
            THEN (IF current_date_line # None
                    THEN parse_transaction(aliases, current_date_line[1], current_postings)
                    ELSE << >>)
                 \o GroupFrom(aliases, lines, i + 1, Some(line), << >>)
         ELSE IF current_date_line # None
            THEN GroupFrom(aliases, lines, i + 1, current_date_line, Append(current_postings, line))
         ELSE GroupFrom(aliases, lines, i + 1, current_date_line, current_postings)

\* LedgerParser.parse_file on the instance whose self.aliases is self_aliases
parse_file_of(self_aliases, lines) ==
    LET a == parse_aliases_into(self_aliases, lines)
    IN  GroupFrom(a.aliases, a.remaining, 1, None, << >>)

\* LedgerParser.parse_file on the lines read from the file
parse_file(lines) ==
    LET a == parse_aliases(lines)
    IN  GroupFrom(a.aliases, a.remaining, 1, None, << >>)

\* parse_ledger_file: a fresh LedgerParser each call
parse_ledger_file(lines) == parse_file(lines)

\* the postings loop of parse_transaction lets an exception of parse_amount out
ParsePostingsRaises(posting_lines) ==
    \E j \in DOMAIN posting_lines :
        LET posting_line == RStrip(posting_lines[j])
        IN  /\ ~(IsBlank(posting_line) \/ COMMENT_PATTERN(posting_line))
            /\ POSTING_PATTERN(posting_line)
            /\ DecimalRaises(posting_line.text[1])

\* parse_transaction reaches its postings loop and an exception leaves it
parse_transaction_raises(date_line, posting_lines) ==
    /\ DATE_PATTERN(date_line)
    /\ StrptimeOk(date_line.date)
    /\ ParsePostingsRaises(posting_lines)

\* the grouping loop of parse_file lets an exception of parse_transaction out
RECURSIVE GroupRaises(_, _, _, _)
GroupRaises(lines, i, current_date_line, current_postings) ==
    IF i > Len(lines)
        THEN /\ current_date_line # None
             /\ parse_transaction_raises(current_date_line[1], current_postings)
    ELSE LET line == RStrip(lines[i]) IN
         IF IsBlank(line) \/ COMMENT_PATTERN(line)
            THEN GroupRaises(lines, i + 1, current_date_line, current_postings)
         ELSE IF DATE_PATTERN(line)
            THEN \/ /\ current_date_line # None
                    /\ parse_transaction_raises(current_date_line[1], current_postings)
                 \/ GroupRaises(lines, i + 1, Some(line), << >>)
         ELSE IF current_date_line # None
            THEN GroupRaises(lines, i + 1, current_date_line, Append(current_postings, line))
         ELSE GroupRaises(lines, i + 1, current_date_line, current_postings)

\* parse_file(lines) raises instead of returning
parse_file_raises(lines) == GroupRaises(parse_aliases(lines).remaining, 1, None, << >>)

parse_ledger_file_raises(lines) == parse_file_raises(lines)

\* Transaction.calculate_hash: sorted() is stable and its key is the account alone
RECURSIVE InsertByAccount(_, _)
InsertByAccount(sorted, p) ==
    IF Len(sorted) = 0 THEN << p >>
    ELSE IF StrLess(p.account, sorted[Len(sorted)].account)
        THEN Append(InsertByAccount(SubSeq(sorted, 1, Len(sorted) - 1), p), sorted[Len(sorted)])
        ELSE Append(sorted, p)

RECURSIVE SortedByAccount(_)
SortedByAccount(ps) ==
    IF Len(ps) = 0 THEN << >>
    ELSE InsertByAccount(SortedByAccount(SubSeq(ps, 1, Len(ps) - 1)), ps[Len(ps)])

\* str(posting.amount) if posting.amount else "": Decimal zero is falsy
AmountStr(amount) ==
    IF amount # None /\ amount[1] # 0 THEN DecimalStr(amount[1]) ELSE << >>

RECURSIVE PostingsContent(_)
PostingsContent(ps) ==
    IF Len(ps) = 0 THEN << >>
    ELSE ps[1].account \o << ":" >> \o AmountStr(ps[1].amount) \o << ":" >>
            \o ps[1].currency \o << "|" >> \o PostingsContent(Tail(ps))

HashContent(t) ==
    isoformat(t.date) \o << "|" >> \o t.payee \o << "|" >>
        \o PostingsContent(SortedByAccount(t.postings))

\* hashlib.sha256(...).hexdigest(): a digest is determined by the content, and
\* distinct contents have distinct digests
sha256(content) == << "sha256" >> \o content

calculate_hash(t) == sha256(HashContent(t))

-----------------------------------------------------------------------------
(* Importer: accounts *)

\* db.query(Account).filter(Account.full_path == path).first(): Optional id
RECURSIVE FindAccountFrom(_, _, _)
FindAccountFrom(accts, path, i) ==
    IF i > Len(accts) THEN None
    ELSE IF accts[i].full_path = path THEN Some(i)
    ELSE FindAccountFrom(accts, path, i + 1)

\* mutant: the lookup filters on Account.name instead of Account.full_path
RECURSIVE FindAccountByNameFrom(_, _, _)
FindAccountByNameFrom(accts, path, i) ==
    IF i > Len(accts) THEN None
    ELSE IF accts[i].name = path THEN Some(i)
    ELSE FindAccountByNameFrom(accts, path, i + 1)

FindAccountByName(accts, path) == FindAccountByNameFrom(accts, path, 1)

FindAccount(accts, path) == FindAccountFrom(accts, path, 1)

\* mutant: the parent link is never set
ParentIdUnset(parent) == None

\* parent.id if parent else None
ParentId(parent) == parent

\* the for loop of get_or_create_account from part i on: [accounts, id]
RECURSIVE CreateHierarchy(_, _, _, _)
CreateHierarchy(accts, parts, i, parent) ==
    IF i > Len(parts) THEN [accounts |-> accts, id |-> parent]
    ELSE LET current_path == Join(SubSeq(parts, 1, i))
             account == FindAccount(accts, current_path)
         IN  IF account = None
                THEN CreateHierarchy(
                        Append(accts, [name |-> parts[i], full_path |-> current_path,
                                       parent_id |-> ParentId(parent)]),
                        parts, i + 1, Some(Len(accts) + 1))
                ELSE CreateHierarchy(accts, parts, i + 1, account)

\* Importer.get_or_create_account: [accounts, id], id the Optional id of the node returned
get_or_create_account(accts, account_path) ==
    LET existing == FindAccount(accts, account_path)
    IN  IF existing # None
            THEN [accounts |-> accts, id |-> existing]
            ELSE CreateHierarchy(accts, Split(account_path), 1, None)

-----------------------------------------------------------------------------
(* Importer: transactions *)

\* Decimal("0.01"), in hundredths
Tolerance == 1

\* db.query(Transaction).filter(Transaction.transaction_hash == h).first(): Optional id
RECURSIVE FindTransactionFrom(_, _, _)
FindTransactionFrom(txns, h, i) ==
    IF i > Len(txns) THEN None
    ELSE IF txns[i].transaction_hash = h THEN Some(i)
    ELSE FindTransactionFrom(txns, h, i + 1)

\* mutant: the duplicate lookup never finds the stored row
FindTransactionNever(txns, h) == None

FindTransaction(txns, h) == FindTransactionFrom(txns, h, 1)

HasAmount(p) == p.amount # None

NoAmount(p) == p.amount = None

RECURSIVE Amounts(_)
Amounts(ps) ==
    IF Len(ps) = 0 THEN << >>
    ELSE (IF ps[1].amount # None THEN << ps[1].amount[1] >> ELSE << >>) \o Amounts(Tail(ps))

\* mutant: the inferred amount is the total, not its negation
InferredAmountNotNegated(total_amount) == total_amount

\* posting.amount = -total_amount
InferredAmount(total_amount) == -total_amount

\* mutant: the tolerance test is inverted
UnbalancedInverted(transaction_sum) == Abs(transaction_sum) < Tolerance

\* abs(transaction_sum) > Decimal("0.01")
Unbalanced(transaction_sum) == Abs(transaction_sum) > Tolerance

\* the assignment to the one posting without amount
RECURSIVE SetMissing(_, _, _)
SetMissing(ps, amount, currency) ==
    IF Len(ps) = 0 THEN << >>
    ELSE IF ps[1].amount = None
        THEN << [ps[1] EXCEPT !.amount = Some(amount), !.currency = currency] >> \o Tail(ps)
        ELSE << ps[1] >> \o SetMissing(Tail(ps), amount, currency)

\* variant: a transaction whose amounts do not sum to zero is rejected
BalanceRejectingUnbalanced(ps) ==
    [postings |-> ps, inferred |-> FALSE,
     rejected |-> \/ Len(SelectSeq(ps, NoAmount)) > 0
                  \/ Unbalanced(SumSeq(Amounts(ps)))]

\* the balancing step of get_or_create_transaction:
\* [postings (after the assignment), inferred, rejected]
Balance(ps) ==
    LET postings_with_amounts == SelectSeq(ps, HasAmount)
        postings_without_amounts == SelectSeq(ps, NoAmount)
        total_amount == SumSeq(Amounts(postings_with_amounts))
    IN  IF Len(postings_without_amounts) = 1 /\ Len(postings_with_amounts) > 0
            THEN [postings |-> SetMissing(ps, InferredAmount(total_amount),
                                          postings_with_amounts[1].currency),
                  inferred |-> TRUE, rejected |-> FALSE]
        ELSE IF Len(postings_without_amounts) > 1
            THEN [postings |-> ps, inferred |-> FALSE, rejected |-> TRUE]
        ELSE [postings |-> ps, inferred |-> FALSE, rejected |-> FALSE]

\* the unbalanced warning of the verification step
WarnsUnbalanced(ps) ==
    LET all_amounts == Amounts(ps)
    IN  Len(all_amounts) > 0 /\ Unbalanced(SumSeq(all_amounts))

\* the posting loop of get_or_create_transaction: [accounts, postings]
RECURSIVE CreatePostings(_, _, _, _)
CreatePostings(accts, posts, tid, ps) ==
    IF Len(ps) = 0 THEN [accounts |-> accts, postings |-> posts]
    ELSE LET r == get_or_create_account(accts, ps[1].account)
             amount == IF ps[1].amount # None THEN ps[1].amount[1] ELSE 0
         IN  CreatePostings(r.accounts,
                            Append(posts, [transaction_id |-> tid, account_id |-> r.id[1],
                                           amount |-> amount, currency |-> ps[1].currency]),
                            tid, Tail(ps))

\* Importer.get_or_create_transaction on the session's tables:
\* the tables after the call, the parsed transaction after it (the balancing step
\* assigns to its posting), the Optional id returned and what was logged
get_or_create_transaction(accts, txns, posts, pt) ==
    LET transaction_hash == calculate_hash(pt)
        existing == FindTransaction(txns, transaction_hash)
        tid == Len(txns) + 1
        txns2 == Append(txns, [date |-> pt.date, payee |-> pt.payee,
                               transaction_hash |-> transaction_hash])
        b == Balance(pt.postings)
        created == CreatePostings(accts, posts, tid, b.postings)
    IN  IF existing # None
            THEN [accounts |-> accts, transactions |-> txns, postings |-> posts,
                  parsed |-> pt, result |-> None,
                  outcome |-> "duplicate", row |-> existing,
                  inferred |-> FALSE, unbalanced |-> FALSE]
        ELSE IF b.rejected
            THEN [accounts |-> accts, transactions |-> txns2, postings |-> posts,
                  parsed |-> pt, result |-> None,
                  outcome |-> "ambiguous", row |-> Some(tid),
                  inferred |-> FALSE, unbalanced |-> FALSE]
        ELSE [accounts |-> created.accounts, transactions |-> txns2,
              postings |-> created.postings,
              parsed |-> [pt EXCEPT !.postings = b.postings], result |-> Some(tid),
              outcome |-> "imported", row |-> Some(tid),
              inferred |-> b.inferred, unbalanced |-> WarnsUnbalanced(b.postings)]

-----------------------------------------------------------------------------
(* Importer: balances *)

IsPostingOf(account_id, p) == p.account_id = account_id

RECURSIVE RowAmounts(_)
RowAmounts(rows) ==
    IF Len(rows) = 0 THEN << >> ELSE << rows[1].amount >> \o RowAmounts(Tail(rows))

\* the postings of one account, in id order
PostingsOf(posts, account_id) ==
    LET Test(p) == IsPostingOf(account_id, p) IN SelectSeq(posts, Test)

\* the display transform of calculate_account_balance
DisplayBalance(account_path, raw_balance) ==
    IF StartsWith(account_path, << "Assets" >>) THEN raw_balance
    ELSE IF StartsWith(account_path, << "Income" >>) THEN -raw_balance
    ELSE IF StartsWith(account_path, << "Expenses" >>) THEN raw_balance
    ELSE IF StartsWith(account_path, << "Liabilities" >>)
            \/ StartsWith(account_path, << "Equity" >>) THEN -raw_balance
    ELSE raw_balance

\* Importer.calculate_account_balance: <<balance, currency>>
calculate_account_balance(accts, posts, account_id) ==
    IF account_id \notin 1..Len(accts) THEN << 0, DefaultCurrency >>
    ELSE LET ps == PostingsOf(posts, account_id)
         IN  IF Len(ps) = 0 THEN << 0, DefaultCurrency >>
             ELSE << DisplayBalance(accts[account_id].full_path, SumSeq(RowAmounts(ps))),
                     ps[1].currency >>

\* db.query(AccountBalance).filter(AccountBalance.account_id == id).first(): Optional index
RECURSIVE FindBalanceFrom(_, _, _)
FindBalanceFrom(bals, account_id, i) ==
    IF i > Len(bals) THEN None
    ELSE IF bals[i].account_id = account_id THEN Some(i)
    ELSE FindBalanceFrom(bals, account_id, i + 1)

\* variant: the cached row of an account is never found
FindBalanceNever(bals, account_id) == None

FindBalance(bals, account_id) == FindBalanceFrom(bals, account_id, 1)

\* what update_account_balances stores for an account
StoredBalance(r) == r[1]

\* Importer.update_account_balances from account i on: the table account_balances
RECURSIVE UpdateBalancesFrom(_, _, _, _)
UpdateBalancesFrom(accts, posts, bals, i) ==
    IF i > Len(accts) THEN bals
    ELSE LET r == calculate_account_balance(accts, posts, i)
             account_balance == FindBalance(bals, i)
         IN  IF account_balance # None
                THEN UpdateBalancesFrom(accts, posts,
                        [bals EXCEPT ![account_balance[1]].balance = StoredBalance(r),
                                     ![account_balance[1]].currency = r[2]],
                        i + 1)
                ELSE UpdateBalancesFrom(accts, posts,
                        Append(bals, [account_id |-> i, balance |-> StoredBalance(r),
                                      currency |-> r[2]]),
                        i + 1)

update_account_balances(accts, posts, bals) == UpdateBalancesFrom(accts, posts, bals, 1)

-----------------------------------------------------------------------------
(* The ledger files of the import specification: every sequence of at most *)
(* MaxFileLines lines drawn from one header and four posting lines.        *)

ExpensesFood == << "Expenses", ":", "Food" >>

AssetsChecking == << "Assets", ":", "Banking", ":", "Checking" >>

IncomeSalary == << "Income", ":", "Salary" >>

IncomeTaxTDS == << "Income", "Tax", ":", "TDS" >>

\* 2024/01/15 Grocery
HeaderGrocery == HeaderLine(<< 2024, 1, 15 >>, << "Grocery" >>)

\*     Expenses:Food  100.00
LineFood == PostingLine(FourSpaces, ExpensesFood, Some(AmountText(<< >>, Some(10000))))

\*     Assets:Banking:Checking
LineChecking == PostingLine(FourSpaces, AssetsChecking, None)

\*     Income:Salary  -50.00
LineSalary == PostingLine(FourSpaces, IncomeSalary, Some(AmountText(<< "-" >>, Some(5000))))

\*     IncomeTax:TDS
LineTDS == PostingLine(FourSpaces, IncomeTaxTDS, None)

FileLines == { HeaderGrocery, LineFood, LineChecking, LineSalary, LineTDS }

Files == UNION { [1..n -> FileLines] : n \in 1..MaxFileLines }

EmptyTables ==
    [accounts |-> << >>, transactions |-> << >>, postings |-> << >>, balances |-> << >>]

Tables == [accounts |-> accounts, transactions |-> transactions,
           postings |-> postings, balances |-> balances]

-----------------------------------------------------------------------------
(* Importer.import_ledger_file, one action per position *)

Init ==
    /\ file \in Files
    /\ file_exists = TRUE
    /\ parser_aliases = EmptyDict
    /\ session_active = TRUE
    /\ response = None
    /\ pc = "idle"
    /\ run = 0
    /\ parsed = << >>
    /\ idx = 0
    /\ imported_count = 0
    /\ skipped_count = 0
    /\ accounts = << >>
    /\ transactions = << >>
    /\ postings = << >>
    /\ balances = << >>
    /\ committed = EmptyTables
    /\ log = << >>
    /\ report = None
    /\ arg = << >>
    /\ ret = None

\* positions at which no request is being served
Resting == {"idle", "done", "aborted", "failed"}

\* variant: every exception is answered like an unexpected one
HttpStatusGeneric(exc) == IF exc = None THEN 200 ELSE 500

\* the status of the answer of POST /import: exc is what import_ledger raised
HttpStatus(exc) ==
    IF exc = None THEN 200
    ELSE IF exc = Some("FileNotFoundError") THEN 404
    ELSE 500

\* a request comes in (get_db opens a new Session); the file exists: parse it
\* and enter the loop
Start ==
    /\ pc \in Resting
    /\ run < MaxRuns
    /\ file_exists
    /\ ~parse_ledger_file_raises(file)
    /\ session_active' = TRUE
    /\ response' = None
    /\ run' = run + 1
    /\ parsed' = parse_file_of(NewParserAliases(parser_aliases), file)
    /\ parser_aliases' = parse_aliases_into(NewParserAliases(parser_aliases), file).aliases
    /\ idx' = 0
    /\ imported_count' = 0
    /\ skipped_count' = 0
    /\ report' = None
    /\ pc' = "loop"
    /\ UNCHANGED <<file, file_exists, accounts, transactions, postings, balances,
                   committed, log, arg, ret>>

\* variant: every block is counted as imported
CountsAsImportedAlways(transaction) == TRUE

\* if transaction: imported_count += 1, else: skipped_count += 1
CountsAsImported(transaction) == transaction # None

\* one iteration of the loop over parsed_transactions
ProcessBlock ==
    /\ pc = "loop"
    /\ idx < Len(parsed)
    /\ session_active
    /\ LET r == get_or_create_transaction(accounts, transactions, postings, parsed[idx + 1])
       IN  /\ accounts' = r.accounts
           /\ transactions' = r.transactions
           /\ postings' = r.postings
           /\ parsed' = [parsed EXCEPT ![idx + 1] = r.parsed]
           /\ IF CountsAsImported(r.result)
                THEN /\ imported_count' = imported_count + 1
                     /\ skipped_count' = skipped_count
                ELSE /\ imported_count' = imported_count
                     /\ skipped_count' = skipped_count + 1
           /\ log' = Append(log,
                [run |-> run, idx |-> idx + 1,
                 outcome |-> r.outcome, row |-> r.row,
                 inferred |-> r.inferred, unbalanced |-> r.unbalanced,
                 counted |-> IF CountsAsImported(r.result) THEN "imported" ELSE "skipped",
                 added |-> [accounts |-> Len(r.accounts) - Len(accounts),
                            transactions |-> Len(r.transactions) - Len(transactions),
                            postings |-> Len(r.postings) - Len(postings)]])
    /\ idx' = idx + 1
    /\ UNCHANGED <<file, parser_aliases, file_exists, session_active, response, pc, run, balances, committed, report, arg, ret>>

\* self.db.commit() after the loop
Commit ==
    /\ pc = "loop"
    /\ idx = Len(parsed)
    /\ session_active
    /\ committed' = Tables
    /\ pc' = "committed"
    /\ UNCHANGED <<file, parser_aliases, file_exists, session_active, response, run, parsed, idx, imported_count, skipped_count, accounts,
                   transactions, postings, balances, log, report, arg, ret>>

\* update_account_balances(), the second commit and the return
UpdateBalancesAndReturn ==
    /\ pc = "committed"
    /\ balances' = update_account_balances(accounts, postings, balances)
    /\ committed' = [Tables EXCEPT !.balances = balances']
    /\ report' = Some([imported |-> imported_count, skipped |-> skipped_count,
                       total_parsed |-> Len(parsed)])
    /\ pc' = "done"
    /\ response' = Some(HttpStatus(None))
    /\ UNCHANGED <<file, parser_aliases, file_exists, session_active, run, parsed, idx, imported_count, skipped_count, accounts,
                   transactions, postings, log, arg, ret>>

Next ==
    \/ Start
    \/ ProcessBlock
    \/ Commit
    \/ UpdateBalancesAndReturn

Spec == Init /\ [][Next]_vars

-----------------------------------------------------------------------------
(* Properties of the import specification *)

\* the transactions as parsed from the file, before the importer assigns to them
OriginalParsed == parse_ledger_file(file)

Range(f) == { f[i] : i \in DOMAIN f }

\* the entries logged by the current run
RunLog == { e \in Range(log) : e.run = run }

PostingsOfTransaction(posts, tid) ==
    LET Test(p) == p.transaction_id = tid IN SelectSeq(posts, Test)

MissingCount(pt) == Len(SelectSeq(pt.postings, NoAmount))

\* C1: idempotent re-import.  In every run after the first on the same file and
\* storage, no block adds an Account, Transaction or Posting row, no block is
\* counted as imported, and the report has imported = 0, skipped = total_parsed.
C1_IdempotentReimport ==
    run >= 2 =>
        /\ pc = "loop" =>
              /\ accounts = committed.accounts
              /\ transactions = committed.transactions
              /\ postings = committed.postings
              /\ imported_count = 0
              /\ skipped_count = idx
        /\ pc = "done" =>
              /\ report[1].imported = 0
              /\ report[1].skipped = report[1].total_parsed
              /\ report[1].total_parsed = Len(OriginalParsed)

\* a second run over a file of two blocks, the first run having stored postings
C1_Witness ==
    /\ run = 2
    /\ pc = "done"
    /\ report[1].total_parsed = 2
    /\ report[1].skipped = 2
    /\ Len(postings) >= 2

\* C3: ambiguous rejection.  Once the run has committed, every block with two or
\* more amount-missing postings was counted as skipped, exactly once, and its
\* call added no Transaction, Posting or Account row to storage.
C3_AmbiguousContributesNoRows ==
    pc \in {"committed", "done"} =>
        \A e \in RunLog :
            MissingCount(OriginalParsed[e.idx]) >= 2 =>
                /\ e.counted = "skipped"
                /\ skipped_count = Cardinality({ d \in RunLog : d.counted = "skipped" })
                /\ e.added = [accounts |-> 0, transactions |-> 0, postings |-> 0]

\* C4: single-missing inference.  For every imported block with exactly one
\* amount-missing posting, the stored Posting rows are, in order, the block's
\* postings with the missing amount replaced by minus the sum of the others
\* (0 when there is none) and its currency by that of the first amount-bearing
\* posting (INR when there is none); the other amounts are as parsed.
C4_SingleMissingInference ==
    \A e \in RunLog :
        LET pt == OriginalParsed[e.idx]
            others == Amounts(pt.postings)
            bearing == SelectSeq(pt.postings, HasAmount)
            rows == PostingsOfTransaction(postings, e.row[1])
        IN  (e.outcome = "imported" /\ MissingCount(pt) = 1) =>
                /\ Len(rows) = Len(pt.postings)
                /\ \A j \in 1..Len(rows) :
                      IF pt.postings[j].amount = None
                        THEN /\ rows[j].amount = 0 - SumSeq(others)
                             /\ rows[j].currency =
                                    IF Len(bearing) > 0 THEN bearing[1].currency
                                    ELSE << "INR" >>
                        ELSE /\ rows[j].amount = pt.postings[j].amount[1]
                             /\ rows[j].currency = pt.postings[j].currency

\* an imported block whose missing amount was inferred from two other postings
C4_Witness ==
    \E e \in RunLog :
        /\ e.outcome = "imported"
        /\ MissingCount(OriginalParsed[e.idx]) = 1
        /\ Len(OriginalParsed[e.idx].postings) = 3
        /\ \E p \in Range(PostingsOfTransaction(postings, e.row[1])) : p.amount = -15000

TransactionSum(tid) == SumSeq(RowAmounts(PostingsOfTransaction(postings, tid)))

\* C5: zero-sum invariant.  Every Transaction row has postings summing to at most
\* 0.01 in absolute value or had the unbalanced warning logged at its import, and
\* every transaction imported through single-missing inference sums to zero.
C5_ZeroSum ==
    /\ \A tid \in 1..Len(transactions) :
          \/ Abs(TransactionSum(tid)) <= 1
          \/ \E e \in Range(log) :
                e.outcome = "imported" /\ e.row = Some(tid) /\ e.unbalanced
    /\ \A e \in Range(log) :
          (e.outcome = "imported" /\ e.inferred) => TransactionSum(e.row[1]) = 0

\* storage holds an unbalanced transaction that was warned about and a
\* transaction balanced by inference
C5_Witness ==
    /\ \E e \in Range(log) :
          e.outcome = "imported" /\ e.unbalanced /\ Abs(TransactionSum(e.row[1])) > 1
    /\ \E e \in Range(log) :
          /\ e.outcome = "imported" /\ e.inferred
          /\ Len(PostingsOfTransaction(postings, e.row[1])) >= 2

RawBalance(account_id) == SumSeq(RowAmounts(PostingsOf(postings, account_id)))

TopSegment(account_id) == Split(accounts[account_id].full_path)[1]

\* C8: sign convention.  The display balance of an account is -raw exactly when
\* the top-level segment of its path is Income, Liabilities or Equity, and raw
\* for every other top-level segment.
C8_SignConvention ==
    pc \in {"committed", "done"} =>
        \A a \in 1..Len(accounts) :
            calculate_account_balance(accounts, postings, a)[1] =
                IF TopSegment(a) \in { << "Income" >>, << "Liabilities" >>, << "Equity" >> }
                    THEN 0 - RawBalance(a)
                    ELSE RawBalance(a)

\* C9: when a run is done, the AccountBalance row of every account holds the raw
\* sum of the account's postings.
C9_CacheHoldsRawSum ==
    pc = "done" =>
        /\ \A a \in 1..Len(accounts) : FindBalance(balances, a) # None
        /\ \A b \in Range(balances) : b.balance = RawBalance(b.account_id)

-----------------------------------------------------------------------------
(* Account materialization alone: any sequence of at most MaxCalls calls of *)
(* get_or_create_account by a single writer, from empty storage.           *)

AccountPaths ==
    { AssetsChecking,
      << "Assets", ":", "Banking" >>,
      << "Assets" >>,
      << "Assets", ":", ":", "Checking" >>,
      IncomeSalary,
      IncomeTaxTDS }

InitAccounts ==
    /\ file = << >>
    /\ file_exists = TRUE
    /\ parser_aliases = EmptyDict
    /\ session_active = TRUE
    /\ response = None
    /\ pc = "idle"
    /\ run = 0
    /\ parsed = << >>
    /\ idx = 0
    /\ imported_count = 0
    /\ skipped_count = 0
    /\ accounts = << >>
    /\ transactions = << >>
    /\ postings = << >>
    /\ balances = << >>
    /\ committed = EmptyTables
    /\ log = << >>
    /\ report = None
    /\ arg = << >>
    /\ ret = None

\* one call of get_or_create_account(account_path)
GetOrCreateAccount ==
    /\ Len(log) < MaxCalls
    /\ \E account_path \in AccountPaths :
          LET r == get_or_create_account(accounts, account_path)
          IN  /\ accounts' = r.accounts
              /\ arg' = account_path
              /\ ret' = r.id
              /\ log' = Append(log, [path |-> account_path, id |-> r.id,
                                     before |-> Len(accounts),
                                     created |-> Len(r.accounts) - Len(accounts)])
    /\ UNCHANGED <<file, parser_aliases, file_exists, session_active, response, pc, run, parsed, idx, imported_count, skipped_count,
                   transactions, postings, balances, committed, report>>

NextAccounts == GetOrCreateAccount

SpecAccounts == InitAccounts /\ [][NextAccounts]_vars

\* C6: account materialization is idempotent.  No two Account rows share a
\* full_path; a call with a path that already has a row creates no row and
\* returns that row; two calls with the same path return the same node; and the
\* first call on empty storage creates one row per segment.
C6_MaterializationIdempotent ==
    /\ \A i, j \in 1..Len(accounts) :
          accounts[i].full_path = accounts[j].full_path => i = j
    /\ \A c \in 1..Len(log) :
          /\ log[c].id # None
          /\ accounts[log[c].id[1]].full_path = log[c].path
          /\ (\E a \in 1..log[c].before : accounts[a].full_path = log[c].path)
                => (log[c].created = 0 /\ log[c].id[1] <= log[c].before)
          /\ \A d \in 1..Len(log) : log[d].path = log[c].path => log[d].id = log[c].id
    /\ Len(log) >= 1 => log[1].created = Len(Split(log[1].path))

\* the three-segment path resolved twice: three rows, the same node both times
C6_Witness ==
    /\ Len(log) = 2
    /\ log[1].path = AssetsChecking
    /\ log[2].path = AssetsChecking
    /\ Len(accounts) = 3
    /\ log[1].id = Some(3)
    /\ ret = Some(3)

\* the Optional id of the row whose full_path is path
AccountAt(path) ==
    IF \E a \in 1..Len(accounts) : accounts[a].full_path = path
        THEN Some(CHOOSE a \in 1..Len(accounts) : accounts[a].full_path = path)
        ELSE None

\* C7: account tree invariant.  For every Account, every proper colon-delimited
\* prefix of its full_path is the full_path of an Account, its parent is the
\* Account of the prefix one segment shorter (none for a one-segment path), and
\* its name is its last segment.
C7_AccountTree ==
    \A a \in 1..Len(accounts) :
        LET parts == Split(accounts[a].full_path)
            n == Len(parts)
        IN  /\ accounts[a].name = parts[n]
            /\ \A k \in 1..(n - 1) : AccountAt(Join(SubSeq(parts, 1, k))) # None
            /\ accounts[a].parent_id =
                  IF n = 1 THEN None ELSE AccountAt(Join(SubSeq(parts, 1, n - 1)))

\* a three-segment account exists whose parent was found, not created, by the
\* call that created it
C7_Witness ==
    \E c \in 1..Len(log) :
        /\ log[c].path = AssetsChecking
        /\ log[c].created = 1
        /\ accounts[log[c].id[1]].parent_id = Some(log[c].before)

-----------------------------------------------------------------------------
(* Transaction.calculate_hash alone: a parsed transaction of at most        *)
(* MaxHashPostings postings and the same transaction with its postings in   *)
(* another order.                                                           *)

HashPostings ==
    { [account |-> a, amount |-> m, currency |-> DefaultCurrency] :
        a \in { AssetsChecking, ExpensesFood },
        m \in { None, Some(10000), Some(5000) } }

Orders(n) ==
    { f \in [1..n -> 1..n] : \A i, j \in 1..n : f[i] = f[j] => i = j }

HashInputs ==
    UNION { { [postings |-> ps, order |-> f] :
                ps \in [1..n -> HashPostings], f \in Orders(n) } :
            n \in 1..MaxHashPostings }

InitHash ==
    /\ file = << >>
    /\ file_exists = TRUE
    /\ parser_aliases = EmptyDict
    /\ session_active = TRUE
    /\ response = None
    /\ pc = "idle"
    /\ run = 0
    /\ parsed = << >>
    /\ idx = 0
    /\ imported_count = 0
    /\ skipped_count = 0
    /\ accounts = << >>
    /\ transactions = << >>
    /\ postings = << >>
    /\ balances = << >>
    /\ committed = EmptyTables
    /\ log = << >>
    /\ report = None
    /\ arg \in HashInputs
    /\ ret = None

\* the transaction of arg as written, and with its postings reordered
HashFirst ==
    [date |-> << 2024, 1, 15 >>, payee |-> << "Grocery" >>, postings |-> arg.postings]

HashSecond ==
    [date |-> << 2024, 1, 15 >>, payee |-> << "Grocery" >>,
     postings |-> [i \in 1..Len(arg.postings) |-> arg.postings[arg.order[i]]]]

\* calculate_hash() of both transactions
CalculateHashes ==
    /\ ret = None
    /\ ret' = Some(<< calculate_hash(HashFirst), calculate_hash(HashSecond) >>)
    /\ UNCHANGED <<file, parser_aliases, file_exists, session_active, response, pc, run, parsed, idx, imported_count, skipped_count, accounts,
                   transactions, postings, balances, committed, log, report, arg>>

NextHash == CalculateHashes

SpecHash == InitHash /\ [][NextHash]_vars

\* C2: hash order-independence.  Two parsed transactions with the same date, the
\* same payee and the same postings in a different order have the same hash,
\* also when several postings name the same account.
C2_HashOrderIndependent ==
    ret # None => ret[1][1] = ret[1][2]

-----------------------------------------------------------------------------
(* LedgerParser.parse_aliases alone: any file of at most MaxAliasLines      *)
(* lines drawn from a blank line, the two alias forms, a header and a       *)
(* posting.                                                                 *)

\* alias A=Assets
LineAliasA == AliasLine(TRUE, << "A" >>, << "Assets" >>)

\* B=Income
LineAliasB == AliasLine(FALSE, << "B" >>, << "Income" >>)

\*     A:Banking  100.00
LineAliased ==
    PostingLine(FourSpaces, << "A", ":", "Banking" >>, Some(AmountText(<< >>, Some(10000))))

AliasFileLines == { BlankLine, LineAliasA, LineAliasB, HeaderGrocery, LineAliased }

AliasFiles == UNION { [1..n -> AliasFileLines] : n \in 1..MaxAliasLines }

InitAlias ==
    /\ file = << >>
    /\ file_exists = TRUE
    /\ parser_aliases = EmptyDict
    /\ session_active = TRUE
    /\ response = None
    /\ pc = "idle"
    /\ run = 0
    /\ parsed = << >>
    /\ idx = 0
    /\ imported_count = 0
    /\ skipped_count = 0
    /\ accounts = << >>
    /\ transactions = << >>
    /\ postings = << >>
    /\ balances = << >>
    /\ committed = EmptyTables
    /\ log = << >>
    /\ report = None
    /\ arg \in AliasFiles
    /\ ret = None

\* parse_aliases(lines) on a fresh LedgerParser
ParseAliases ==
    /\ ret = None
    /\ ret' = Some(parse_aliases(arg))
    /\ UNCHANGED <<file, parser_aliases, file_exists, session_active, response, pc, run, parsed, idx, imported_count, skipped_count, accounts,
                   transactions, postings, balances, committed, log, report, arg>>

NextAlias == ParseAliases

SpecAlias == InitAlias /\ [][NextAlias]_vars

\* index of the first line that is neither blank nor an alias directive
RECURSIVE FirstOther(_, _)
FirstOther(lines, i) ==
    IF i > Len(lines) THEN i
    ELSE IF IsBlank(lines[i]) \/ ALIAS_PATTERN(lines[i]) THEN FirstOther(lines, i + 1)
    ELSE i

\* the mapping defined by the alias directives among the first n lines
RECURSIVE LeadingAliases(_, _)
LeadingAliases(lines, n) ==
    IF n = 0 THEN EmptyDict
    ELSE IF ALIAS_PATTERN(lines[n])
        THEN (lines[n].key :> lines[n].value) @@ LeadingAliases(lines, n - 1)
        ELSE LeadingAliases(lines, n - 1)

\* C10: alias collection covers only the contiguous leading run.  From the first
\* non-blank line that is not an alias directive on, no line is recorded as an
\* alias and every line is passed on to the grammar.
C10_AliasLeadingRunOnly ==
    ret # None =>
        LET k == FirstOther(arg, 1)
        IN  /\ ret[1].aliases = LeadingAliases(arg, k - 1)
            /\ ret[1].remaining = [i \in 1..(Len(arg) - k + 1) |-> RStrip(arg[k + i - 1])]

-----------------------------------------------------------------------------
(* LedgerParser.expand_aliases on its own: self.aliases and the account token *)

MaxSegments == 2

AliasKeyA == << "A" >>

AliasKeyB == << "B" >>

\* what an alias directive may have given a key: nothing, or a value
AliasChoices ==
    [ {AliasKeyA, AliasKeyB} ->
        { None, Some(<< "Assets" >>), Some(<< "B" >>), Some(<< "Assets", ":", "Banking" >>) } ]

DictOf(choice) ==
    [ k \in { x \in DOMAIN choice : choice[x] # None } |-> choice[k][1] ]

AliasDicts == { DictOf(c) : c \in AliasChoices }

ExpandSegments == { << "A" >>, << "B" >>, << "Checking" >> }

ExpandAccounts ==
    { Join(parts) : parts \in UNION { [1..n -> ExpandSegments] : n \in 1..MaxSegments } }

InitExpand ==
    /\ file = << >>
    /\ file_exists = TRUE
    /\ parser_aliases = EmptyDict
    /\ session_active = TRUE
    /\ response = None
    /\ pc = "idle"
    /\ run = 0
    /\ parsed = << >>
    /\ idx = 0
    /\ imported_count = 0
    /\ skipped_count = 0
    /\ accounts = << >>
    /\ transactions = << >>
    /\ postings = << >>
    /\ balances = << >>
    /\ committed = EmptyTables
    /\ log = << >>
    /\ report = None
    /\ arg \in [aliases : AliasDicts, account : ExpandAccounts]
    /\ ret = None

ExpandAliases ==
    /\ ret = None
    /\ ret' = Some(expand_aliases(arg.aliases, arg.account))
    /\ UNCHANGED <<file, parser_aliases, file_exists, session_active, response, pc, run, parsed, idx,
                   imported_count, skipped_count, accounts, transactions, postings,
                   balances, committed, log, report, arg>>

NextExpand == ExpandAliases

SpecExpand == InitExpand /\ [][NextExpand]_vars

\* what one segment of the token stands for
SegmentExpansion(aliases, part) ==
    IF part \in DOMAIN aliases THEN Split(aliases[part]) ELSE << part >>

\* the segments of the token's first n segments, each replaced once, in order
RECURSIVE ExpandedUpTo(_, _, _)
ExpandedUpTo(aliases, parts, n) ==
    IF n = 0 THEN << >>
    ELSE ExpandedUpTo(aliases, parts, n - 1) \o SegmentExpansion(aliases, parts[n])

\* C11: alias expansion replaces every segment that is an alias token by the
\* alias's value (which may have several segments), leaves the other segments
\* alone, keeps their order, and does not expand the substituted segments again.
C11_SinglePassExpansion ==
    ret # None =>
        LET parts == Split(arg.account)
        IN  Split(ret[1]) = ExpandedUpTo(arg.aliases, parts, Len(parts))

\* A=B and B=Assets, and the token A:Checking has become B:Checking
C11_Witness ==
    /\ ret = Some(<< "B", ":", "Checking" >>)
    /\ arg.account = << "A", ":", "Checking" >>
    /\ AliasKeyA \in DOMAIN arg.aliases /\ arg.aliases[AliasKeyA] = << "B" >>
    /\ AliasKeyB \in DOMAIN arg.aliases /\ arg.aliases[AliasKeyB] = << "Assets" >>

-----------------------------------------------------------------------------
(* The import request with its failures: the file may be missing, and a     *)
(* flush of the Session may raise.  A flush that raises rolls the Session's *)
(* transaction back and leaves it inactive: until Session.rollback(), which *)
(* the importer never calls, every operation of the Session raises.         *)

MaxServiceLines == 4

ServiceLines == { HeaderGrocery, LineFood, LineChecking }

ServiceFiles == UNION { [1..n -> ServiceLines] : n \in 1..MaxServiceLines }

InitService ==
    /\ file \in ServiceFiles
    /\ file_exists \in BOOLEAN
    /\ parser_aliases = EmptyDict
    /\ session_active = TRUE
    /\ response = None
    /\ pc = "idle"
    /\ run = 0
    /\ parsed = << >>
    /\ idx = 0
    /\ imported_count = 0
    /\ skipped_count = 0
    /\ accounts = << >>
    /\ transactions = << >>
    /\ postings = << >>
    /\ balances = << >>
    /\ committed = EmptyTables
    /\ log = << >>
    /\ report = None
    /\ arg = << >>
    /\ ret = None

\* the file is deleted between two requests
RemoveFile ==
    /\ pc \in Resting
    /\ file_exists
    /\ file_exists' = FALSE
    /\ UNCHANGED <<file, parser_aliases, session_active, response, pc, run, parsed, idx, imported_count,
                   skipped_count, accounts, transactions, postings, balances, committed,
                   log, report, arg, ret>>

\* a request comes in and the file does not exist: FileNotFoundError leaves
\* import_ledger_file and the handler answers
StartMissing ==
    /\ pc \in Resting
    /\ run < MaxRuns
    /\ ~file_exists
    /\ run' = run + 1
    /\ session_active' = TRUE
    /\ report' = None
    /\ response' = Some(HttpStatus(Some("FileNotFoundError")))
    /\ pc' = "aborted"
    /\ UNCHANGED <<file, parser_aliases, file_exists, parsed, idx, imported_count, skipped_count, accounts,
                   transactions, postings, balances, committed, log, arg, ret>>

\* what the loop logs for a block whose processing raised
Raised(outcome) ==
    [run |-> run, idx |-> idx + 1, outcome |-> outcome, row |-> None,
     inferred |-> FALSE, unbalanced |-> FALSE, counted |-> "skipped",
     added |-> [accounts |-> 0, transactions |-> 0, postings |-> 0]]

\* one iteration in which a flush of get_or_create_transaction raises: the
\* Session rolls back everything flushed since the last commit, the loop
\* catches the exception and counts the block as skipped
ProcessBlockFlushRaises ==
    /\ pc = "loop"
    /\ idx < Len(parsed)
    /\ session_active
    /\ FindTransaction(transactions, calculate_hash(parsed[idx + 1])) = None
    /\ accounts' = committed.accounts
    /\ transactions' = committed.transactions
    /\ postings' = committed.postings
    /\ session_active' = FALSE
    /\ skipped_count' = skipped_count + 1
    /\ idx' = idx + 1
    /\ log' = Append(log, Raised("flush_raised"))
    /\ UNCHANGED <<file, parser_aliases, file_exists, response, pc, run, parsed, imported_count, balances,
                   committed, report, arg, ret>>

\* one iteration on an inactive Session: the first query raises, the loop
\* catches the exception and counts the block as skipped
ProcessBlockInactive ==
    /\ pc = "loop"
    /\ idx < Len(parsed)
    /\ ~session_active
    /\ skipped_count' = skipped_count + 1
    /\ idx' = idx + 1
    /\ log' = Append(log, Raised("session_inactive"))
    /\ UNCHANGED <<file, parser_aliases, file_exists, session_active, response, pc, run, parsed,
                   imported_count, accounts, transactions, postings, balances, committed,
                   report, arg, ret>>

\* self.db.commit() on an inactive Session raises outside the loop's try: the
\* exception leaves import_ledger_file and the handler answers
CommitInactive ==
    /\ pc = "loop"
    /\ idx = Len(parsed)
    /\ ~session_active
    /\ response' = Some(HttpStatus(Some("PendingRollbackError")))
    /\ pc' = "failed"
    /\ UNCHANGED <<file, parser_aliases, file_exists, session_active, run, parsed, idx, imported_count,
                   skipped_count, accounts, transactions, postings, balances, committed,
                   log, report, arg, ret>>

NextService ==
    \/ Start
    \/ StartMissing
    \/ RemoveFile
    \/ ProcessBlock
    \/ ProcessBlockFlushRaises
    \/ ProcessBlockInactive
    \/ Commit
    \/ CommitInactive
    \/ UpdateBalancesAndReturn

SpecService == InitService /\ [][NextService]_vars

\* C12: a request for a ledger path that does not exist reads and writes
\* nothing: the run aborts, the session view and the committed tables are what
\* they were, no report is returned and the answer is 404.
C12_MissingFileAborts ==
    [][ (~file_exists /\ run' = run + 1) =>
            /\ pc' = "aborted"
            /\ response' = Some(404)
            /\ report' = None
            /\ Tables' = Tables
            /\ committed' = committed
            /\ log' = log ]_vars

\* an earlier run stored rows, the file was deleted and the next request aborted
C12_Witness ==
    /\ pc = "aborted"
    /\ response = Some(404)
    /\ Len(committed.transactions) > 0
    /\ Len(committed.balances) > 0
    /\ Tables = committed

\* C13: a storage exception in one block costs that block only.  The block is
\* counted as skipped, no later block fails because of it, and the run is not
\* aborted: it ends in done with a report that accounts for every block.
C13_BlockFailureIsolated ==
    /\ \A e \in Range(log) : e.outcome = "flush_raised" => e.counted = "skipped"
    /\ \A e \in Range(log) : e.outcome # "session_inactive"
    /\ pc # "failed"
    /\ (pc = "done" =>
            report[1].imported + report[1].skipped = report[1].total_parsed)

-----------------------------------------------------------------------------
(* Properties of what the import leaves in storage *)

\* C14: atomic per-block write.  Once a run has committed, every Transaction
\* row in storage is the row of a block of the file and has one Posting row per
\* posting line of that block, and every Posting row belongs to a stored
\* Transaction row.
C14_BlocksWrittenWhole ==
    pc \in {"committed", "done"} =>
        /\ \A tid \in DOMAIN committed.transactions :
                \E i \in DOMAIN OriginalParsed :
                    /\ calculate_hash(OriginalParsed[i])
                            = committed.transactions[tid].transaction_hash
                    /\ Len(PostingsOfTransaction(committed.postings, tid))
                            = Len(OriginalParsed[i].postings)
        /\ \A j \in DOMAIN committed.postings :
                committed.postings[j].transaction_id \in DOMAIN committed.transactions

IsPrefix(s, t) == Len(s) <= Len(t) /\ SubSeq(t, 1, Len(s)) = s

\* C15: a block whose hash is already in storage is counted as skipped and its
\* step changes no table; and in every step the Account, Transaction and Posting
\* rows already committed stay, in place and field by field (rows may only be
\* added after them).  The same holds of the rows of the session, except that
\* the rollback of a flush that raised drops the rows not yet committed.
C15_DuplicateChangesNothing ==
    [][ /\ IsPrefix(committed.accounts, committed'.accounts)
        /\ IsPrefix(committed.transactions, committed'.transactions)
        /\ IsPrefix(committed.postings, committed'.postings)
        /\ ~(session_active /\ ~session_active') =>
                /\ IsPrefix(accounts, accounts')
                /\ IsPrefix(transactions, transactions')
                /\ IsPrefix(postings, postings')
        /\ (/\ pc = "loop"
            /\ idx' = idx + 1
            /\ \E tid \in DOMAIN transactions :
                    transactions[tid].transaction_hash = calculate_hash(parsed[idx + 1]))
            => /\ skipped_count' = skipped_count + 1
               /\ imported_count' = imported_count
               /\ Tables' = Tables
               /\ committed' = committed ]_vars

\* the second run skipped a block that the first run had stored with its postings
C15_Witness ==
    /\ pc = "done"
    /\ Len(committed.postings) > 0
    /\ \E e \in Range(log) :
            /\ e.run = 2
            /\ e.outcome = "duplicate"
            /\ e.counted = "skipped"
            /\ e.row # None
            /\ Len(PostingsOfTransaction(committed.postings, e.row[1])) > 0

\* a block that is new to storage, has an amount on every posting and a sum
\* beyond the tolerance
IsNewUnbalanced(e) ==
    LET pt == OriginalParsed[e.idx]
    IN  /\ e.outcome \in {"imported", "ambiguous"}
        /\ MissingCount(pt) = 0
        /\ Abs(SumSeq(Amounts(pt.postings))) > Tolerance

\* C16: an unbalanced transaction is persisted.  A new block with an amount on
\* every posting and a sum beyond 0.01 is counted as imported and its Posting
\* rows carry, in order, the amounts of the parsed postings.
C16_UnbalancedPersisted ==
    \A e \in Range(log) :
        IsNewUnbalanced(e) =>
            /\ e.counted = "imported"
            /\ e.unbalanced
            /\ RowAmounts(PostingsOfTransaction(postings, e.row[1]))
                    = Amounts(OriginalParsed[e.idx].postings)

\* a run has returned after storing a block of two postings that sum to 150.00
C16_Witness ==
    /\ pc = "done"
    /\ report[1].imported >= 1
    /\ \E e \in Range(log) :
            /\ IsNewUnbalanced(e)
            /\ e.counted = "imported"
            /\ Len(PostingsOfTransaction(committed.postings, e.row[1])) = 2

BalanceRowsOf(bals, account_id) ==
    LET Test(b) == b.account_id = account_id IN SelectSeq(bals, Test)

\* C17: balances are recomputed after the loop.  The table account_balances
\* changes only in the step that follows the commit of a fully processed file
\* and ends the run; when a run ends, every Account row has exactly one
\* AccountBalance row, holding what calculate_account_balance gives for the
\* postings stored at that time, and that table is committed.
C17_BalancesAfterAllBlocks ==
    [][ /\ balances' # balances =>
                (pc = "committed" /\ idx = Len(parsed) /\ pc' = "done")
        /\ pc' = "done" =>
                /\ committed'.balances = balances'
                /\ \A a \in DOMAIN accounts' :
                        LET rows == BalanceRowsOf(balances', a)
                        IN  /\ Len(rows) = 1
                            /\ << rows[1].balance, rows[1].currency >>
                                    = calculate_account_balance(accounts', postings', a) ]_vars

\* the second run has ended; the accounts of the first run, path nodes
\* included, have one row each and one of them is not zero
C17_Witness ==
    /\ pc = "done"
    /\ run = 2
    /\ Len(accounts) >= 3
    /\ Len(balances) = Len(accounts)
    /\ \E a \in DOMAIN accounts : accounts[a].parent_id = None
    /\ \E a \in DOMAIN accounts : accounts[a].parent_id # None
    /\ \E j \in DOMAIN balances : balances[j].balance # 0

-----------------------------------------------------------------------------
(* The import of files that try the grammar: a header whose date is not a   *)
(* calendar date, indentation by tabs and by five spaces, a negative amount *)

MaxLedgerLines == 4

\* 2024/13/45 Rent
HeaderBadDate == HeaderLine(<< 2024, 13, 45 >>, << "Rent" >>)

\*     Assets:Banking:Checking  -100.00
LineRefund == PostingLine(FourSpaces, AssetsChecking, Some(AmountText(<< "-" >>, Some(10000))))

FourTabs == << "\t", "\t", "\t", "\t" >>

\* four tab characters, then Income:Salary  50.00
LineTabbed == PostingLine(FourTabs, IncomeSalary, Some(AmountText(<< >>, Some(5000))))

FiveSpaces == << " ", " ", " ", " ", " " >>

\*      Expenses:Food  25.00
LineFiveSpaces == PostingLine(FiveSpaces, ExpensesFood, Some(AmountText(<< >>, Some(2500))))

LedgerLines ==
    { HeaderGrocery, HeaderBadDate, LineFood, LineRefund, LineTabbed, LineFiveSpaces }

LedgerFiles == UNION { [1..n -> LedgerLines] : n \in 1..MaxLedgerLines }

InitLedger ==
    /\ file \in LedgerFiles
    /\ file_exists = TRUE
    /\ parser_aliases = EmptyDict
    /\ session_active = TRUE
    /\ response = None
    /\ pc = "idle"
    /\ run = 0
    /\ parsed = << >>
    /\ idx = 0
    /\ imported_count = 0
    /\ skipped_count = 0
    /\ accounts = << >>
    /\ transactions = << >>
    /\ postings = << >>
    /\ balances = << >>
    /\ committed = EmptyTables
    /\ log = << >>
    /\ report = None
    /\ arg = << >>
    /\ ret = None

SpecLedger == InitLedger /\ [][Next]_vars

\* the lines of the file that have the shape of a header, by line number
HeaderNumbers == { i \in DOMAIN file : file[i].k = "header" }

\* the line number of the next header after line h, or one past the last line
NextHeader(h) ==
    LET later == { g \in HeaderNumbers : g > h } \cup { Len(file) + 1 }
    IN  CHOOSE m \in later : \A g \in later : m <= g

\* the lines between header h and the next header
BlockLines(h) == SubSeq(file, h + 1, NextHeader(h) - 1)

\* the regular expressions of the parser take the line for a posting
CodeRecognized(line) == POSTING_PATTERN(line) \/ POSTING_ACCOUNT_ONLY_PATTERN(line)

PostingLinesOf(h) == SelectSeq(BlockLines(h), CodeRecognized)

IsCalendarDate(d) ==
    /\ d[1] >= 1
    /\ d[2] \in 1..12
    /\ d[3] \in 1..DaysInMonth(d[1], d[2])

\* the headers that give a transaction: a calendar date and at least one posting
TransactionHeaders ==
    { h \in HeaderNumbers : IsCalendarDate(file[h].date) /\ Len(PostingLinesOf(h)) > 0 }

\* the position in the parse result of the transaction of header h
RankOf(h) == Cardinality({ g \in TransactionHeaders : g <= h })

AccountsOf(ps) == [j \in DOMAIN ps |-> ps[j].account]

\* C18: a header whose date is not a calendar date gives no transaction, and
\* the posting lines after it, up to the next header, go to no transaction.
\* Once the file is parsed, the result has one transaction for each header with a calendar date and
\* a posting line of its own, in file order, with that header's date and the
\* accounts of exactly its own posting lines; a finished run reports that number
\* as total_parsed and counts each of them, and nothing else, as imported or
\* skipped.
C18_BadDateBlockDiscarded ==
    /\ (pc # "idle" =>
            /\ Len(parsed) = Cardinality(TransactionHeaders)
            /\ \A h \in TransactionHeaders :
                    /\ parsed[RankOf(h)].date = file[h].date
                    /\ AccountsOf(parsed[RankOf(h)].postings) = AccountsOf(PostingLinesOf(h)))
    /\ (pc = "done" =>
            /\ report[1].total_parsed = Cardinality(TransactionHeaders)
            /\ report[1].imported + report[1].skipped = Cardinality(TransactionHeaders))

\* a run has ended on a file in which a block with a calendar date is followed by
\* a header without one and a posting line under it: one transaction, one posting
C18_Witness ==
    /\ pc = "done"
    /\ Len(file) = 4
    /\ file[1] = HeaderGrocery
    /\ CodeRecognized(file[2])
    /\ file[3] = HeaderBadDate
    /\ CodeRecognized(file[4])
    /\ report[1].total_parsed = 1
    /\ report[1].imported = 1
    /\ report[1].skipped = 0
    /\ Len(committed.transactions) = 1
    /\ Len(committed.postings) = 1

FourSpaceIndented(line) == line.k = "posting" /\ line.indent = FourSpaces

RECURSIVE CountPostings(_)
CountPostings(ts) ==
    IF Len(ts) = 0 THEN 0 ELSE Len(ts[1].postings) + CountPostings(Tail(ts))

\* the posting lines under headers with a calendar date that are indented by
\* exactly four spaces
FourSpaceLines ==
    { i \in DOMAIN file :
        /\ FourSpaceIndented(file[i])
        /\ \E h \in HeaderNumbers :
                IsCalendarDate(file[h].date) /\ h < i /\ i < NextHeader(h) }

\* C19: a line is a posting only when it is indented by exactly four spaces.
\* Once the file is parsed, the transactions have as many postings as the file
\* has four-space posting lines under headers with a calendar date.
C19_FourSpacesOnly ==
    pc # "idle" => CountPostings(parsed) = Cardinality(FourSpaceLines)

\* the value written in an amount text: negative after a minus sign
WrittenAmount(text) ==
    IF \E j \in DOMAIN text.pre : text.pre[j] = "-" THEN -text.num[1] ELSE text.num[1]

RECURSIVE WrittenAmounts(_)
WrittenAmounts(lines) ==
    IF Len(lines) = 0 THEN << >>
    ELSE << WrittenAmount(lines[1].text[1]) >> \o WrittenAmounts(Tail(lines))

\* every posting line of the block of header h has an amount with digits
AllAmountsWritten(h) ==
    \A j \in DOMAIN PostingLinesOf(h) :
        /\ PostingLinesOf(h)[j].text # None
        /\ PostingLinesOf(h)[j].text[1].num # None

\* C20: the amount parser returns the signed value.  For a block whose posting
\* lines all have an amount, the parsed amounts are the written values, negative
\* where a minus sign is written, and once imported the Posting rows of the
\* block sum to the sum of the written values (100.00 and -100.00: zero).
C20_SignedAmounts ==
    \A h \in TransactionHeaders :
        (pc # "idle" /\ AllAmountsWritten(h)) =>
            /\ Amounts(parsed[RankOf(h)].postings) = WrittenAmounts(PostingLinesOf(h))
            /\ \A e \in Range(log) :
                    (e.idx = RankOf(h) /\ e.outcome = "imported") =>
                        TransactionSum(e.row[1]) = SumSeq(WrittenAmounts(PostingLinesOf(h)))

-----------------------------------------------------------------------------
(* The import of files with amount texts that denote no amount: a text      *)
(* without a digit, and a text that is a comma                              *)

MaxAmountLines == 3

\*     Assets:Banking:Checking  abc
LineNoDigits == PostingLine(FourSpaces, AssetsChecking, Some(AmountText(<< "abc" >>, None)))

\*     Assets:Banking:Checking  ,
LineCommaOnly == PostingLine(FourSpaces, AssetsChecking, Some(AmountText(<< "," >>, None)))

AmountLines == { HeaderGrocery, LineFood, LineNoDigits, LineCommaOnly }

AmountFiles == UNION { [1..n -> AmountLines] : n \in 1..MaxAmountLines }

InitAmounts ==
    /\ file \in AmountFiles
    /\ file_exists = TRUE
    /\ parser_aliases = EmptyDict
    /\ session_active = TRUE
    /\ response = None
    /\ pc = "idle"
    /\ run = 0
    /\ parsed = << >>
    /\ idx = 0
    /\ imported_count = 0
    /\ skipped_count = 0
    /\ accounts = << >>
    /\ transactions = << >>
    /\ postings = << >>
    /\ balances = << >>
    /\ committed = EmptyTables
    /\ log = << >>
    /\ report = None
    /\ arg = << >>
    /\ ret = None

\* a request comes in, the file exists and parse_ledger_file raises: the call
\* is outside the loop's try, the exception leaves import_ledger_file and the
\* handler answers
StartParseRaises ==
    /\ pc \in Resting
    /\ run < MaxRuns
    /\ file_exists
    /\ parse_ledger_file_raises(file)
    /\ run' = run + 1
    /\ session_active' = TRUE
    /\ report' = None
    /\ response' = Some(HttpStatus(Some("InvalidOperation")))
    /\ pc' = "failed"
    /\ UNCHANGED <<file, parser_aliases, file_exists, parsed, idx, imported_count, skipped_count, accounts,
                   transactions, postings, balances, committed, log, arg, ret>>

NextAmounts ==
    \/ Start
    \/ StartParseRaises
    \/ ProcessBlock
    \/ Commit
    \/ UpdateBalancesAndReturn

SpecAmounts == InitAmounts /\ [][NextAmounts]_vars

\* the posting line gives no amount: it has no amount text, or one without digits
GivesNoAmount(line) == line.text = None \/ line.text[1].num = None

\* C21: an amount text that denotes no amount is never an error.  The file
\* exists, so no run is aborted; once the file is parsed, every posting line
\* with such a text has given a posting without amount and with the default
\* currency; and an imported block with exactly one posting line that gives no
\* amount, next to one that does, had that amount inferred.
C21_UnparseableAmountIsAbsent ==
    /\ pc \notin {"aborted", "failed"}
    /\ (pc = "loop" /\ idx = 0) =>
            \A h \in TransactionHeaders :
                \A j \in DOMAIN PostingLinesOf(h) :
                    (/\ PostingLinesOf(h)[j].text # None
                     /\ PostingLinesOf(h)[j].text[1].num = None)
                    => /\ parsed[RankOf(h)].postings[j].amount = None
                       /\ parsed[RankOf(h)].postings[j].currency = DefaultCurrency
    /\ \A e \in RunLog :
            \A h \in TransactionHeaders :
                (/\ RankOf(h) = e.idx
                 /\ e.outcome = "imported"
                 /\ Len(SelectSeq(PostingLinesOf(h), GivesNoAmount)) = 1
                 /\ Len(PostingLinesOf(h)) > 1)
                => e.inferred

-----------------------------------------------------------------------------
(* Import runs on files with alias directives; between two requests the     *)
(* file may be replaced by another one                                       *)

MaxReimportLines == 4

ReimportLines == { LineAliasA, HeaderGrocery, LineAliased, LineChecking }

ReimportFiles == UNION { [1..n -> ReimportLines] : n \in 1..MaxReimportLines }

\* the files that may take the place of the first one
LaterFiles ==
    { << HeaderGrocery, LineAliased >>,
      << HeaderGrocery, LineAliased, LineChecking >>,
      << LineAliasA, HeaderGrocery, LineAliased >> }

InitReimport ==
    /\ file \in ReimportFiles
    /\ file_exists = TRUE
    /\ parser_aliases = EmptyDict
    /\ session_active = TRUE
    /\ response = None
    /\ pc = "idle"
    /\ run = 0
    /\ parsed = << >>
    /\ idx = 0
    /\ imported_count = 0
    /\ skipped_count = 0
    /\ accounts = << >>
    /\ transactions = << >>
    /\ postings = << >>
    /\ balances = << >>
    /\ committed = EmptyTables
    /\ log = << >>
    /\ report = None
    /\ arg = << >>
    /\ ret = None

\* after a run has returned and its answer is delivered, the file at
\* file_path is replaced
ReplaceFile ==
    /\ pc = "done"
    /\ run < MaxRuns
    /\ file' \in LaterFiles \ {file}
    /\ pc' = "idle"
    /\ report' = None
    /\ response' = None
    /\ UNCHANGED <<file_exists, parser_aliases, session_active, run, parsed, idx,
                   imported_count, skipped_count, accounts, transactions, postings,
                   balances, committed, log, arg, ret>>

NextReimport ==
    \/ Start
    \/ ProcessBlock
    \/ Commit
    \/ UpdateBalancesAndReturn
    \/ ReplaceFile

SpecReimport == InitReimport /\ [][NextReimport]_vars

\* the mapping given by the alias directives of the lines, a later one winning
DeclaredAliases(lines) == LeadingAliases(lines, Len(lines))

\* the account token of a posting line as the directives of the file expand it
ExpandedByFile(line) ==
    LET parts == Split(line.account)
    IN  Join(ExpandedUpTo(DeclaredAliases(file), parts, Len(parts)))

\* C22: alias state is scoped to one run.  Once a run has parsed its file, the
\* parser holds the aliases that this file declares and no other, and the
\* account of every parsed posting is its token expanded by these alone,
\* whatever the file of an earlier run declared.
C22_AliasesScopedToRun ==
    (pc = "loop" /\ idx = 0) =>
        /\ parser_aliases = DeclaredAliases(file)
        /\ \A h \in TransactionHeaders :
                \A j \in DOMAIN PostingLinesOf(h) :
                    parsed[RankOf(h)].postings[j].account
                        = ExpandedByFile(PostingLinesOf(h)[j])

\* the first run's file declared A=Assets; the file of the second run declares
\* nothing and its token A:Banking is left as written
C22_Witness ==
    /\ pc = "loop"
    /\ idx = 0
    /\ run = 2
    /\ \E a \in DOMAIN accounts : accounts[a].full_path = << "Assets", ":", "Banking" >>
    /\ DeclaredAliases(file) = EmptyDict
    /\ Len(parsed) = 1
    /\ parsed[1].postings[1].account = << "A", ":", "Banking" >>

-----------------------------------------------------------------------------
(* Properties of the counters and of the stored rows *)

\* the blocks of the current run that were to give a Transaction row: new to
\* storage and with at most one posting without amount
MeantToAdd ==
    { e \in RunLog : e.added.transactions = 1 /\ MissingCount(OriginalParsed[e.idx]) <= 1 }

\* C23: counting invariant.  A run that returns a report has processed every
\* parsed block exactly once and counted it as imported or as skipped, so that
\* imported + skipped = total_parsed, and imported is the number of blocks that
\* were to give a Transaction row.
C23_CountingInvariant ==
    pc = "done" =>
        /\ report[1].total_parsed = Len(OriginalParsed)
        /\ report[1].imported + report[1].skipped = report[1].total_parsed
        /\ \A i \in DOMAIN OriginalParsed : Cardinality({ e \in RunLog : e.idx = i }) = 1
        /\ \A e \in RunLog : e.idx \in DOMAIN OriginalParsed
        /\ report[1].imported = Cardinality({ e \in RunLog : e.counted = "imported" })
        /\ report[1].skipped = Cardinality({ e \in RunLog : e.counted = "skipped" })
        /\ report[1].imported = Cardinality(MeantToAdd)

\* a run has returned with a block imported and a block skipped
C23_Witness ==
    /\ pc = "done"
    /\ report[1].imported >= 1
    /\ report[1].skipped >= 1
    /\ report[1].total_parsed >= 2

-----------------------------------------------------------------------------
(* Transaction.calculate_hash on two parsed transactions *)

MaxPairPostings == 2

PairPostings ==
    { [account |-> a, amount |-> m, currency |-> DefaultCurrency] :
        a \in { AssetsChecking, ExpensesFood },
        m \in { None, Some(0), Some(10000) } }

PairTransactions ==
    { [date |-> d, payee |-> p, postings |-> ps] :
        d \in { << 2024, 1, 15 >>, << 2024, 1, 16 >> },
        p \in { << "Grocery" >>, << "Rent" >> },
        ps \in UNION { [1..n -> PairPostings] : n \in 1..MaxPairPostings } }

InitPair ==
    /\ file = << >>
    /\ file_exists = TRUE
    /\ parser_aliases = EmptyDict
    /\ session_active = TRUE
    /\ response = None
    /\ pc = "idle"
    /\ run = 0
    /\ parsed = << >>
    /\ idx = 0
    /\ imported_count = 0
    /\ skipped_count = 0
    /\ accounts = << >>
    /\ transactions = << >>
    /\ postings = << >>
    /\ balances = << >>
    /\ committed = EmptyTables
    /\ log = << >>
    /\ report = None
    /\ arg \in PairTransactions \X PairTransactions
    /\ ret = None

\* the hash input and the hash of both transactions
HashPair ==
    /\ ret = None
    /\ ret' = Some([content |-> << HashContent(arg[1]), HashContent(arg[2]) >>,
                    hash |-> << calculate_hash(arg[1]), calculate_hash(arg[2]) >>])
    /\ UNCHANGED <<file, file_exists, parser_aliases, session_active, response, pc, run,
                   parsed, idx, imported_count, skipped_count, accounts, transactions,
                   postings, balances, committed, log, report, arg>>

NextPair == HashPair

SpecPair == InitPair /\ [][NextPair]_vars

\* the two transactions have the same date and payee and the same postings up
\* to their order
SameContent(t, u) ==
    /\ t.date = u.date
    /\ t.payee = u.payee
    /\ Len(t.postings) = Len(u.postings)
    /\ \E f \in Orders(Len(t.postings)) :
            \A i \in DOMAIN t.postings : t.postings[i] = u.postings[f[i]]

\* C24: the dedup hash separates different content.  Two transactions that
\* differ in date, payee, or a posting's account, amount or amount-presence
\* (0.00 is not a missing amount) have different hash inputs and hashes.
C24_HashSeparatesContent ==
    (ret # None /\ ~SameContent(arg[1], arg[2])) =>
        /\ ret[1].content[1] # ret[1].content[2]
        /\ ret[1].hash[1] # ret[1].hash[2]

-----------------------------------------------------------------------------
(* Properties of blocks that repeat within a file *)

BlockHash(i) == calculate_hash(OriginalParsed[i])

\* C25: deduplication within one run.  When two blocks of the file have the
\* same date, payee and postings, the run skips the later one as a duplicate and
\* adds nothing for it; the earlier one, if it is new to storage and not
\* rejected, is imported; and storage never holds two Transaction rows with the
\* same hash.
C25_DedupWithinRun ==
    /\ \A e, d \in Range(log) :
            (e.run = d.run /\ e.idx < d.idx /\ BlockHash(e.idx) = BlockHash(d.idx)) =>
                /\ d.outcome = "duplicate"
                /\ d.counted = "skipped"
                /\ d.added = [accounts |-> 0, transactions |-> 0, postings |-> 0]
                /\ d.row = e.row
                /\ (e.added.transactions = 1 /\ MissingCount(OriginalParsed[e.idx]) <= 1)
                        => e.counted = "imported"
    /\ \A t, u \in DOMAIN transactions :
            transactions[t].transaction_hash = transactions[u].transaction_hash => t = u

\* the first run has returned: of two equal blocks the first was imported, the
\* second skipped, and one Transaction row is stored
C25_Witness ==
    /\ pc = "done"
    /\ run = 1
    /\ Len(committed.transactions) = 1
    /\ report[1].imported = 1
    /\ report[1].skipped = 1
    /\ \E e, d \in RunLog :
            /\ e.idx = 1
            /\ d.idx = 2
            /\ BlockHash(1) = BlockHash(2)
            /\ e.counted = "imported"
            /\ d.outcome = "duplicate"

-----------------------------------------------------------------------------
(* Properties of the Posting rows of an imported block *)

RECURSIVE WrittenMagnitudes(_)
WrittenMagnitudes(lines) ==
    IF Len(lines) = 0 THEN << >>
    ELSE (IF GivesNoAmount(lines[1]) THEN << >> ELSE << lines[1].text[1].num[1] >>)
         \o WrittenMagnitudes(Tail(lines))

\* the amount of the row of the j-th posting line: the parsed amount, or for the
\* line without amount minus the sum of the parsed amounts of the others
ParsedOrInferred(lines, j) ==
    IF GivesNoAmount(lines[j]) THEN -SumSeq(WrittenMagnitudes(lines))
    ELSE lines[j].text[1].num[1]

\* C26: faithful persistence.  Every Posting row references a stored
\* Transaction row and a stored Account row; and for every block of the current
\* run counted as imported, the Posting rows of its Transaction row are, in
\* order, one per recognized posting line of the block, on the Account whose
\* full_path is the line's token expanded by the aliases of the file, with the
\* amount as parsed or inferred.
C26_FaithfulPersistence ==
    /\ \A j \in DOMAIN postings :
            /\ postings[j].transaction_id \in DOMAIN transactions
            /\ postings[j].account_id \in DOMAIN accounts
    /\ pc \in {"loop", "committed", "done"} =>
            \A e \in RunLog :
                \A h \in TransactionHeaders :
                    (e.counted = "imported" /\ RankOf(h) = e.idx) =>
                        LET lines == PostingLinesOf(h)
                            rows == PostingsOfTransaction(postings, e.row[1])
                        IN  /\ Len(rows) = Len(lines)
                            /\ \A j \in DOMAIN lines :
                                    /\ accounts[rows[j].account_id].full_path
                                            = ExpandedByFile(lines[j])
                                    /\ rows[j].amount = ParsedOrInferred(lines, j)

\* a run has returned after importing a block with the aliased token A:Banking,
\* stored on Assets:Banking with 100.00, and a posting without amount, stored
\* with -100.00
C26_Witness ==
    /\ pc = "done"
    /\ report[1].imported = 1
    /\ \E i \in DOMAIN file : file[i] = LineAliasA
    /\ \E e \in RunLog :
            /\ e.counted = "imported"
            /\ e.inferred
            /\ LET rows == PostingsOfTransaction(committed.postings, e.row[1])
               IN  /\ Len(rows) = 2
                   /\ accounts[rows[1].account_id].full_path = << "Assets", ":", "Banking" >>
                   /\ rows[1].amount = 10000
                   /\ rows[2].amount = -10000

-----------------------------------------------------------------------------
(* The import followed by GET /transactions (api/transactions.py), on files *)
(* with an Expenses, an Income and a Liabilities posting                     *)

MaxViewLines == 3

LiabilitiesBanking == << "Liabilities", ":", "Banking" >>

\*     Liabilities:Banking  25.00
LineLoan == PostingLine(FourSpaces, LiabilitiesBanking, Some(AmountText(<< >>, Some(2500))))

ViewLines == { HeaderGrocery, LineFood, LineSalary, LineLoan }

ViewFiles == UNION { [1..n -> ViewLines] : n \in 1..MaxViewLines }

InitViews ==
    /\ file \in ViewFiles
    /\ file_exists = TRUE
    /\ parser_aliases = EmptyDict
    /\ session_active = TRUE
    /\ response = None
    /\ pc = "idle"
    /\ run = 0
    /\ parsed = << >>
    /\ idx = 0
    /\ imported_count = 0
    /\ skipped_count = 0
    /\ accounts = << >>
    /\ transactions = << >>
    /\ postings = << >>
    /\ balances = << >>
    /\ committed = EmptyTables
    /\ log = << >>
    /\ report = None
    /\ arg = << >>
    /\ ret = None

\* the display amount of model_to_schema
DisplayAmount(account_path, amount) ==
    IF StartsWith(account_path, << "Income" >>) THEN -amount ELSE amount

\* model_to_schema(transaction) for the Transaction row tid
model_to_schema(tables, tid) ==
    LET rows == PostingsOfTransaction(tables.postings, tid)
    IN  [id |-> tid,
         date |-> tables.transactions[tid].date,
         payee |-> tables.transactions[tid].payee,
         postings |->
            [j \in DOMAIN rows |->
                [transaction_id |-> rows[j].transaction_id,
                 account_id |-> rows[j].account_id,
                 account_path |-> tables.accounts[rows[j].account_id].full_path,
                 amount |-> DisplayAmount(tables.accounts[rows[j].account_id].full_path,
                                          rows[j].amount),
                 currency |-> rows[j].currency]]]

\* get_transactions without filters, first page: the rows by date and id
\* descending (the files have one date, and fewer blocks than a page holds)
get_transactions(tables) ==
    LET n == Len(tables.transactions)
    IN  [transactions |-> [k \in 1..n |-> model_to_schema(tables, n + 1 - k)],
         total |-> n]

\* GET /transactions after a run has returned
GetTransactions ==
    /\ pc = "done"
    /\ IF ret = None THEN TRUE ELSE ret[1].run # run
    /\ ret' = Some([run |-> run, body |-> get_transactions(committed)])
    /\ UNCHANGED <<file, file_exists, parser_aliases, session_active, response, pc, run,
                   parsed, idx, imported_count, skipped_count, accounts, transactions,
                   postings, balances, committed, log, report, arg>>

NextViews ==
    \/ Start
    \/ ProcessBlock
    \/ Commit
    \/ UpdateBalancesAndReturn
    \/ GetTransactions

SpecViews == InitViews /\ [][NextViews]_vars

RECURSIVE ListedPostings(_)
ListedPostings(ts) ==
    IF Len(ts) = 0 THEN << >> ELSE ts[1].postings \o ListedPostings(Tail(ts))

\* the sum of the display amounts that the list shows for an account
ListedSum(body, account_id) ==
    SumSeq(RowAmounts(PostingsOf(ListedPostings(body.transactions), account_id)))

\* C27: display signs agree across views.  For every account, the display
\* amounts of its postings in the answer of GET /transactions sum to the balance
\* that the importer cached for the account.
C27_DisplaySignsAgree ==
    (pc = "done" /\ ret # None /\ ret[1].run = run) =>
        \A a \in DOMAIN committed.accounts :
            ListedSum(ret[1].body, a) = BalanceRowsOf(committed.balances, a)[1].balance

====
